---- MODULE Spec2Model ----
(***************************************************************************)
(* Model of the xccmeta node tree, the cross-unit merge (parser::merge)    *)
(* and the filter collection (xccmeta::filter).                            *)
(*                                                                         *)
(* Nodes live in a heap: `nodes` is a sequence of node records and a       *)
(* node_ptr is an index into it (Null is the null pointer).  node::create  *)
(* appends a record, so a freshly created node is the one at Len + 1.      *)
(***************************************************************************)
EXTENDS Integers, Sequences, FiniteSets, TLC

VARIABLES
    nodes,      \* the heap: node_ptr -> [kind, usr, name, tags, children, parent]
    a, b,       \* the two arguments handed to parser::merge
    merged,     \* the node_ptr returned by parser::merge
    pc,         \* "start" before the call of this run, "done" after it
    types_,     \* filter::types_
    config_,    \* filter::config_
    ret,        \* value returned by the latest bool-returning filter call
    tag_,       \* a tag object built with the tag constructor
    to_parse,   \* the text handed to tag::parse, a sequence of characters
    result,     \* value returned by the latest tag::parse or node query
    ctx,        \* visitor_context: the current_parent of each nested visit_cursor call
    twin,       \* a second filter object: its types_, config_ and latest return value
    gen         \* a generator object: its output_stream and its warnings

vars == <<nodes, a, b, merged, pc, types_, config_, ret, tag_, to_parse, result, ctx, twin, gen>>

\* nullptr / an expired weak_ptr
Null == 0

-----------------------------------------------------------------------------
(* Bounds of the model *)

\* number of declaration nodes spread over the two input trees of merge
MaxDecls == 3
\* number of nodes offered to the filter
MaxPool == 3
\* longest tag list of the node handed to matches_config on its own
MaxTags == 2

-----------------------------------------------------------------------------
(* Small helpers *)

\* the elements of a finite set of integers in increasing order
SeqOfSet(S) ==
    [k \in 1..Cardinality(S) |->
        CHOOSE x \in S : Cardinality({y \in S : y < x}) = k - 1]

Range(s) == {s[i] : i \in DOMAIN s}

mk_tag(n) == [name |-> n, args |-> <<>>]

-----------------------------------------------------------------------------
(* node *)

\* node::create(kind): every field but the kind is default-initialised
new_node(k) ==
    [kind |-> k, usr |-> "", name |-> "", tags |-> <<>>,
     children |-> <<>>, parent |-> Null]

\* the heap after node::create(k); the new node is Len(h) + 1
create(h, k) == Append(h, new_node(k))

\* an add_child that leaves the parent of the child as it is
add_child_no_back_reference(h, p, child) ==
    IF child # Null THEN [h EXCEPT ![p].children = Append(@, child)] ELSE h

\* an add_child that puts the child in front of its siblings
add_child_front(h, p, child) ==
    IF child # Null
    THEN [h EXCEPT ![child].parent = p, ![p].children = <<child>> \o @]
    ELSE h

\* node::add_child
add_child(h, p, child) ==
    IF child # Null
    THEN [h EXCEPT ![child].parent = p, ![p].children = Append(@, child)]
    ELSE h

\* node::has_tag
has_tag(h, n, name) == \E i \in DOMAIN h[n].tags : h[n].tags[i].name = name

\* node::is_type_decl
is_type_decl(h, n) ==
    h[n].kind \in {"class_decl", "struct_decl", "union_decl", "enum_decl",
                   "typedef_decl", "type_alias_decl"}

-----------------------------------------------------------------------------
(* parser_impl::clone_node and parser::merge *)

\* a clone_node that hands back the source node instead of a copy
clone_node_shares(h, src) == [heap |-> h, id |-> src]

RECURSIVE clone_node(_, _), clone_children(_, _, _, _)

\* parser_impl::clone_node: [heap, id] - the heap with the copy in it and the copy
clone_node(h, src) ==
    IF src = Null THEN [heap |-> h, id |-> Null]
    ELSE LET copy == Len(h) + 1
             h1 == Append(h, [kind |-> h[src].kind, usr |-> h[src].usr,
                              name |-> h[src].name, tags |-> h[src].tags,
                              children |-> <<>>, parent |-> Null])
         IN  [heap |-> clone_children(h1, copy, h[src].children, 1), id |-> copy]

\* the loop over src->get_children() at the end of clone_node, from child i on
clone_children(h, copy, cs, i) ==
    IF i > Len(cs) THEN h
    ELSE LET r == clone_node(h, cs[i])
         IN  clone_children(IF r.id # Null THEN add_child(r.heap, copy, r.id)
                                           ELSE r.heap,
                            copy, cs, i + 1)

\* a collect_usrs that looks at the node and its direct children only
collect_usrs_direct_only(h, n) ==
    IF n = Null THEN {}
    ELSE {h[x].usr : x \in {n} \cup {h[n].children[i] : i \in DOMAIN h[n].children}} \ {""}

RECURSIVE collect_usrs(_, _)
\* the key set of usr_map after collect_usrs(n, usr_map)
collect_usrs(h, n) ==
    IF n = Null THEN {}
    ELSE (IF h[n].usr # "" THEN {h[n].usr} ELSE {})
         \cup UNION {collect_usrs(h, h[n].children[i]) : i \in DOMAIN h[n].children}

RECURSIVE merge_add_a(_, _, _, _)
\* "Add all children from 'a' (cloned)", from child i on
merge_add_a(h, m, cs, i) ==
    IF i > Len(cs) THEN h
    ELSE LET r == clone_node(h, cs[i])
         IN  merge_add_a(add_child(r.heap, m, r.id), m, cs, i + 1)

RECURSIVE merge_add_b_descends(_, _, _, _, _)
\* a loop over the children of b that, for a child whose usr is in a, goes on
\* with the children of that child
merge_add_b_descends(h, m, cs, usr_map, i) ==
    IF i > Len(cs) THEN h
    ELSE IF cs[i] = Null THEN merge_add_b_descends(h, m, cs, usr_map, i + 1)
    ELSE IF h[cs[i]].usr = "" \/ h[cs[i]].usr \notin usr_map
         THEN LET r == clone_node(h, cs[i])
              IN  merge_add_b_descends(add_child(r.heap, m, r.id), m, cs, usr_map, i + 1)
         ELSE merge_add_b_descends(
                  merge_add_b_descends(h, m, h[cs[i]].children, usr_map, 1),
                  m, cs, usr_map, i + 1)

RECURSIVE merge_add_b(_, _, _, _, _)
\* "Add children from 'b' that are not already in 'a' (by USR)", from child i on
merge_add_b(h, m, cs, usr_map, i) ==
    IF i > Len(cs) THEN h
    ELSE IF cs[i] = Null THEN merge_add_b(h, m, cs, usr_map, i + 1)
    ELSE IF h[cs[i]].usr = "" \/ h[cs[i]].usr \notin usr_map
         THEN LET r == clone_node(h, cs[i])
              IN  merge_add_b(add_child(r.heap, m, r.id), m, cs, usr_map, i + 1)
         ELSE merge_add_b(h, m, cs, usr_map, i + 1)

\* parser::merge with the two early returns handing back the absent side
merge_swapped_returns(h, x, y) ==
    IF x = Null THEN [heap |-> h, id |-> x] ELSE [heap |-> h, id |-> y]

\* parser::merge: [heap, id] - the heap after the call and the returned node_ptr
merge(h, x, y) ==
    IF x = Null THEN [heap |-> h, id |-> y]
    ELSE IF y = Null THEN [heap |-> h, id |-> x]
    ELSE LET m == Len(h) + 1
             h0 == [create(h, "translation_unit") EXCEPT ![m].name = "merged"]
             usr_map == collect_usrs(h, x)
             h1 == merge_add_a(h0, m, h[x].children, 1)
             h2 == merge_add_b(h1, m, h[y].children, usr_map, 1)
         IN  [heap |-> h2, id |-> m]

-----------------------------------------------------------------------------
(* The input trees of merge: node 1 is the root of A, node 2 the root of B, *)
(* the declarations 3 .. 2 + MaxDecls hang below them.  Declarations are    *)
(* numbered in breadth-first order, so a parent has a smaller number than   *)
(* its children and the children of a node are in increasing order.         *)

RootA == 1
RootB == 2
DeclIds == (RootB + 1)..(RootB + MaxDecls)

Usrs == {"", "c:@F@foo#", "c:@N@ns"}

\* what populate_node_from_cursor fills in besides the usr
DeclProtos ==
    {[kind |-> "namespace_decl", name |-> "ns", tags |-> <<>>],
     [kind |-> "function_decl", name |-> "foo", tags |-> <<mk_tag("interface")>>]}

ParentMaps ==
    {p \in [DeclIds -> 1..(RootB + MaxDecls)] :
        \A i \in DeclIds : p[i] < i /\ (i - 1 \in DeclIds => p[i - 1] <= p[i])}

ChildrenOf(p, n) == SeqOfSet({j \in DeclIds : p[j] = n})

InputHeap(p, u, pr, ru) ==
    [n \in 1..(RootB + MaxDecls) |->
        IF n \in DeclIds
        THEN [kind |-> pr[n].kind, usr |-> u[n], name |-> pr[n].name,
              tags |-> pr[n].tags, children |-> ChildrenOf(p, n), parent |-> p[n]]
        ELSE [kind |-> "translation_unit", usr |-> IF n = RootA THEN ru ELSE "",
              name |-> "input.cpp", tags |-> <<>>,
              children |-> ChildrenOf(p, n), parent |-> Null]]

DefaultConfig ==
    [allowed_kinds |-> <<>>, grab_tag_names |-> <<>>, avoid_tag_names |-> <<>>,
     child_node_inclusion |-> "exclude", parent_node_inclusion |-> "exclude"]

InitMerge ==
    /\ \E p \in ParentMaps, u \in [DeclIds -> Usrs], pr \in [DeclIds -> DeclProtos],
          ru \in {"", "c:@N@ns"} :
          nodes = InputHeap(p, u, pr, ru)
    /\ a \in {Null, RootA}
    /\ b \in {Null, RootA, RootB}
    /\ merged = Null
    /\ pc = "start"
    /\ types_ = <<>>
    /\ config_ = DefaultConfig
    /\ ret = FALSE
    /\ tag_ = <<>> /\ to_parse = <<>> /\ result = <<>> /\ ctx = <<>> /\ twin = <<>> /\ gen = <<>>

\* the call merged = parser::merge(a, b, args)
Merge ==
    /\ pc = "start"
    /\ LET r == merge(nodes, a, b)
       IN  nodes' = r.heap /\ merged' = r.id
    /\ pc' = "done"
    /\ UNCHANGED <<gen, twin, ctx, tag_, to_parse, result, a, b, types_, config_, ret>>

NextMerge == Merge

SpecMerge == InitMerge /\ [][NextMerge]_vars

-----------------------------------------------------------------------------
(* filter *)

\* filter::find_by_usr: the position of the first held node with this usr,
\* Len(ts) + 1 for types_.end()
find_by_usr(h, ts, usr) ==
    LET hits == {i \in DOMAIN ts : ts[i] # Null /\ h[ts[i]].usr = usr}
    IN  IF hits = {} THEN Len(ts) + 1
        ELSE CHOOSE i \in hits : \A j \in hits : i <= j

\* filter::contains comparing the pointers instead of the usrs
contains_by_identity(h, ts, type) ==
    IF type = Null THEN FALSE ELSE \E i \in DOMAIN ts : ts[i] = type

\* filter::contains
contains(h, ts, type) ==
    IF type = Null THEN FALSE
    ELSE find_by_usr(h, ts, h[type].usr) # Len(ts) + 1

\* filter::matches_config testing the deny-list only when the allow-list is empty
matches_config_avoid_after_grab(h, cfg, type) ==
    IF type = Null THEN FALSE
    ELSE IF cfg.allowed_kinds # <<>> /\ h[type].kind \notin Range(cfg.allowed_kinds)
         THEN FALSE
    ELSE IF cfg.grab_tag_names # <<>>
         THEN \E i \in DOMAIN cfg.grab_tag_names : has_tag(h, type, cfg.grab_tag_names[i])
    ELSE ~\E i \in DOMAIN cfg.avoid_tag_names : has_tag(h, type, cfg.avoid_tag_names[i])

\* filter::matches_config
\* a matches_config that lets a type without tags pass the tag filters when
\* one of the two inclusion settings is not exclude
matches_config_inclusion_bypass(h, cfg, type) ==
    IF type = Null THEN FALSE
    ELSE IF cfg.allowed_kinds # <<>> /\ h[type].kind \notin Range(cfg.allowed_kinds) THEN FALSE
    ELSE IF h[type].tags # <<>>
         THEN /\ ~\E i \in DOMAIN cfg.avoid_tag_names : has_tag(h, type, cfg.avoid_tag_names[i])
              /\ \/ cfg.grab_tag_names = <<>>
                 \/ \E i \in DOMAIN cfg.grab_tag_names : has_tag(h, type, cfg.grab_tag_names[i])
         ELSE \/ cfg.grab_tag_names = <<>>
              \/ cfg.child_node_inclusion # "exclude"
              \/ cfg.parent_node_inclusion # "exclude"

matches_config(h, cfg, type) ==
    IF type = Null THEN FALSE
    ELSE IF cfg.allowed_kinds # <<>> /\ h[type].kind \notin Range(cfg.allowed_kinds)
         THEN FALSE
    ELSE IF h[type].tags # <<>>
         THEN IF \E i \in DOMAIN cfg.avoid_tag_names :
                     has_tag(h, type, cfg.avoid_tag_names[i])
              THEN FALSE
              ELSE IF /\ cfg.grab_tag_names # <<>>
                      /\ ~\E i \in DOMAIN cfg.grab_tag_names :
                             has_tag(h, type, cfg.grab_tag_names[i])
                   THEN FALSE
                   ELSE TRUE
         ELSE IF cfg.grab_tag_names # <<>> THEN FALSE ELSE TRUE

\* filter::is_valid_type without the is_type_decl test
is_valid_type_any_kind(h, cfg, type) ==
    IF type = Null THEN FALSE ELSE matches_config(h, cfg, type)

\* filter::is_valid_type
is_valid_type(h, cfg, type) ==
    IF type = Null THEN FALSE
    ELSE IF ~is_type_decl(h, type) THEN FALSE
    ELSE matches_config(h, cfg, type)

\* filter::add without the contains test
add_no_dup_check(h, cfg, ts, type) ==
    IF type = Null THEN [types |-> ts, ret |-> FALSE]
    ELSE IF ~is_valid_type(h, cfg, type) THEN [types |-> ts, ret |-> FALSE]
    ELSE [types |-> Append(ts, type), ret |-> TRUE]

\* filter::add pushing to the front
add_front(h, cfg, ts, type) ==
    IF type = Null THEN [types |-> ts, ret |-> FALSE]
    ELSE IF ~is_valid_type(h, cfg, type) THEN [types |-> ts, ret |-> FALSE]
    ELSE IF contains(h, ts, type) THEN [types |-> ts, ret |-> FALSE]
    ELSE [types |-> <<type>> \o ts, ret |-> TRUE]

\* filter::add: [types, ret] - types_ after the call and the value returned
add(h, cfg, ts, type) ==
    IF type = Null THEN [types |-> ts, ret |-> FALSE]
    ELSE IF ~is_valid_type(h, cfg, type) THEN [types |-> ts, ret |-> FALSE]
    ELSE IF contains(h, ts, type) THEN [types |-> ts, ret |-> FALSE]
    ELSE [types |-> Append(ts, type), ret |-> TRUE]

\* a remove that looks the node up by pointer instead of by usr
remove_by_identity(h, ts, type) ==
    IF type = Null THEN [types |-> ts, ret |-> FALSE]
    ELSE LET hits == {i \in DOMAIN ts : ts[i] = type}
         IN  IF hits = {} THEN [types |-> ts, ret |-> FALSE]
             ELSE LET it == CHOOSE i \in hits : TRUE
                  IN  [types |-> SubSeq(ts, 1, it - 1) \o SubSeq(ts, it + 1, Len(ts)),
                       ret |-> TRUE]

\* filter::remove: [types, ret]
remove(h, ts, type) ==
    IF type = Null THEN [types |-> ts, ret |-> FALSE]
    ELSE LET it == find_by_usr(h, ts, h[type].usr)
         IN  IF it = Len(ts) + 1 THEN [types |-> ts, ret |-> FALSE]
             ELSE [types |-> SubSeq(ts, 1, it - 1) \o SubSeq(ts, it + 1, Len(ts)),
                   ret |-> TRUE]

\* filter::clear
clear(ts) == <<>>

\* a clean that erases only the first held node that fails matches_config
clean_first_only(h, cfg, ts) ==
    LET bad == {i \in DOMAIN ts : ~matches_config(h, cfg, ts[i])}
    IN  IF bad = {} THEN ts
        ELSE LET it == CHOOSE i \in bad : \A k \in bad : i <= k
             IN  SubSeq(ts, 1, it - 1) \o SubSeq(ts, it + 1, Len(ts))

\* filter::clean: erase(remove_if(!matches_config)) keeps the others in order
clean(h, cfg, ts) == SelectSeq(ts, LAMBDA t : matches_config(h, cfg, t))

\* filter::size
size(ts) == Len(ts)

-----------------------------------------------------------------------------
(* The filter under every configuration over a pool of free-standing nodes. *)
(* The pool is a multiset of attribute combinations (the order in which the *)
(* nodes are handed to the filter is chosen by the actions).                *)

PoolIds == 1..MaxPool

PoolKinds == <<"class_decl", "struct_decl", "function_decl">>
PoolUsrs == <<"", "c:@S@Person", "c:@S@Widget">>
PoolTags == << <<>>, <<mk_tag("serialize")>>,
               <<mk_tag("serialize"), mk_tag("internal")>> >>

NumAttrs == Len(PoolKinds) * Len(PoolUsrs) * Len(PoolTags)

\* the i-th combination of kind, usr and tags, as a free-standing node
PoolNode(i) ==
    [new_node(PoolKinds[(i % Len(PoolKinds)) + 1]) EXCEPT
        !.usr = PoolUsrs[((i \div Len(PoolKinds)) % Len(PoolUsrs)) + 1],
        !.name = "T",
        !.tags = PoolTags[(i \div (Len(PoolKinds) * Len(PoolUsrs))) + 1]]

PoolChoices ==
    {f \in [PoolIds -> 0..(NumAttrs - 1)] :
        \A i \in PoolIds : i + 1 \in PoolIds => f[i] <= f[i + 1]}

FilterConfigs ==
    {c \in [allowed_kinds : {<<>>, <<"class_decl">>},
            grab_tag_names : {<<>>, <<"serialize">>},
            avoid_tag_names : {<<>>, <<"internal">>},
            child_node_inclusion : {"exclude"},
            parent_node_inclusion : {"exclude"}] :
        \/ c.allowed_kinds = <<>> /\ c.grab_tag_names = <<>>
        \/ c.allowed_kinds = <<>> /\ c.avoid_tag_names = <<>>
        \/ c.grab_tag_names = <<>> /\ c.avoid_tag_names = <<>>}

InitFilter ==
    /\ \E f \in PoolChoices : nodes = [n \in PoolIds |-> PoolNode(f[n])]
    /\ config_ \in FilterConfigs
    /\ types_ = <<>>
    /\ ret = FALSE
    /\ tag_ = <<>> /\ to_parse = <<>> /\ result = <<>> /\ ctx = <<>> /\ twin = <<>> /\ gen = <<>>
    /\ a = Null /\ b = Null /\ merged = Null
    /\ pc = "filter"

\* ret = filter.add(type)
Add(type) ==
    /\ pc = "filter"
    /\ LET r == add(nodes, config_, types_, type)
       IN  types_' = r.types /\ ret' = r.ret
    /\ UNCHANGED <<gen, twin, ctx, tag_, to_parse, result, nodes, config_, a, b, merged, pc>>

\* ret = filter.remove(type)
Remove(type) ==
    /\ pc = "filter"
    /\ LET r == remove(nodes, types_, type)
       IN  types_' = r.types /\ ret' = r.ret
    /\ UNCHANGED <<gen, twin, ctx, tag_, to_parse, result, nodes, config_, a, b, merged, pc>>

\* filter.clear()
Clear ==
    /\ pc = "filter"
    /\ types_' = clear(types_)
    /\ UNCHANGED <<gen, twin, ctx, tag_, to_parse, result, nodes, config_, ret, a, b, merged, pc>>

\* filter.clean()
Clean ==
    /\ pc = "filter"
    /\ types_' = clean(nodes, config_, types_)
    /\ UNCHANGED <<gen, twin, ctx, tag_, to_parse, result, nodes, config_, ret, a, b, merged, pc>>

NextFilter ==
    \/ \E type \in PoolIds \cup {Null} : Add(type)
    \/ \E type \in PoolIds \cup {Null} : Remove(type)
    \/ Clear
    \/ Clean

SpecFilter == InitFilter /\ [][NextFilter]_vars

-----------------------------------------------------------------------------
(* matches_config on its own: one node, every kind of tag list up to MaxTags *)
(* tags, against allow-, grab- and deny-lists of up to two entries.          *)

MatchKinds == {"class_decl", "struct_decl", "enum_decl", "function_decl"}
MatchTagNames == {"serialize", "internal", "other"}

MatchTagLists ==
    UNION {{[i \in 1..k |-> mk_tag(f[i])] : f \in [1..k -> MatchTagNames]} :
              k \in 0..MaxTags}

MatchConfigs ==
    [allowed_kinds : {<<>>, <<"class_decl">>, <<"class_decl", "enum_decl">>},
     grab_tag_names : {<<>>, <<"serialize">>, <<"serialize", "reflect">>},
     avoid_tag_names : {<<>>, <<"internal">>, <<"internal", "serialize">>},
     child_node_inclusion : {"exclude"},
     parent_node_inclusion : {"exclude"}]

InitMatch ==
    /\ \E k \in MatchKinds, t \in MatchTagLists :
          nodes = <<[new_node(k) EXCEPT !.usr = "c:@S@Person", !.name = "Person",
                                        !.tags = t]>>
    /\ config_ \in MatchConfigs
    /\ types_ = <<>>
    /\ ret = FALSE
    /\ tag_ = <<>> /\ to_parse = <<>> /\ result = <<>> /\ ctx = <<>> /\ twin = <<>> /\ gen = <<>>
    /\ a = Null /\ b = Null /\ merged = Null
    /\ pc = "match"

\* ret = filter.matches_config(node 1)
Match ==
    /\ pc = "match"
    /\ ret' = matches_config(nodes, config_, 1)
    /\ pc' = "matched"
    /\ UNCHANGED <<gen, twin, ctx, tag_, to_parse, result, nodes, config_, types_, a, b, merged>>

NextMatch == Match

SpecMatch == InitMatch /\ [][NextMatch]_vars

-----------------------------------------------------------------------------
(* The filter while the nodes it holds are changed through the node's       *)
(* protected setters (add_tag, set_kind), as the parser and subclasses can. *)

\* node::add_tag
add_tag(h, n, t) == [h EXCEPT ![n].tags = Append(@, t)]

\* node::set_kind
set_kind(h, n, k) == [h EXCEPT ![n].kind = k]

MutUsrs == <<"c:@S@A", "c:@S@B", "c:@S@C", "c:@S@D", "c:@S@E">>

MutKinds == {"class_decl", "function_decl"}

MutConfigs ==
    [allowed_kinds : {<<>>, <<"class_decl">>},
     grab_tag_names : {<<>>},
     avoid_tag_names : {<<>>, <<"internal">>},
     child_node_inclusion : {"exclude"},
     parent_node_inclusion : {"exclude"}]

InitMut ==
    /\ nodes = [n \in PoolIds |->
                    [new_node("class_decl") EXCEPT !.usr = MutUsrs[n], !.name = "T"]]
    /\ config_ \in MutConfigs
    /\ types_ = <<>>
    /\ ret = FALSE
    /\ tag_ = <<>> /\ to_parse = <<>> /\ result = <<>> /\ ctx = <<>> /\ twin = <<>> /\ gen = <<>>
    /\ a = Null /\ b = Null /\ merged = Null
    /\ pc = "mut"

MutAdd(type) ==
    /\ pc = "mut"
    /\ LET r == add(nodes, config_, types_, type)
       IN  types_' = r.types /\ ret' = r.ret
    /\ UNCHANGED <<gen, twin, ctx, tag_, to_parse, result, nodes, config_, a, b, merged, pc>>

MutClean ==
    /\ pc = "mut"
    /\ types_' = clean(nodes, config_, types_)
    /\ UNCHANGED <<gen, twin, ctx, tag_, to_parse, result, nodes, config_, ret, a, b, merged, pc>>

\* one tag is attached, to a node that carries none yet
AddTag(n) ==
    /\ pc = "mut"
    /\ nodes[n].tags = <<>>
    /\ nodes' = add_tag(nodes, n, mk_tag("internal"))
    /\ UNCHANGED <<gen, twin, ctx, tag_, to_parse, result, types_, config_, ret, a, b, merged, pc>>

SetKind(n, k) ==
    /\ pc = "mut"
    /\ nodes' = set_kind(nodes, n, k)
    /\ UNCHANGED <<gen, twin, ctx, tag_, to_parse, result, types_, config_, ret, a, b, merged, pc>>

NextMut ==
    \/ \E type \in PoolIds : MutAdd(type)
    \/ MutClean
    \/ \E n \in PoolIds : AddTag(n)
    \/ \E n \in PoolIds, k \in MutKinds : SetKind(n, k)

SpecMut == InitMut /\ [][NextMut]_vars

-----------------------------------------------------------------------------
(* Tags: std::string is a sequence of one-character strings, positions are  *)
(* counted from 0 as in the code.                                           *)

\* the characters " \t\n\r\f\v" of trim ("\\v" stands for the vertical tab)
Whitespace == {" ", "\t", "\n", "\r", "\f", "\\v"}

\* size_t has SizeRange values; every text of the model is far shorter
SizeRange == 2 ^ 30

\* std::string::npos
npos == SizeRange - 1

\* arithmetic on size_t wraps around
size_t(n) == n % SizeRange

\* std::string::substr(pos, count), for pos <= size()
substr(str, pos, count) ==
    LET n == IF count < Len(str) - pos THEN count ELSE Len(str) - pos
    IN  SubSeq(str, pos + 1, pos + n)

\* std::string::find(c)
find(str, c) ==
    LET hits == {i \in 0..(Len(str) - 1) : str[i + 1] = c}
    IN  IF hits = {} THEN npos ELSE CHOOSE i \in hits : \A k \in hits : i <= k

\* a trim that strips the leading whitespace only
trim_leading(str) ==
    LET keep == {i \in 0..(Len(str) - 1) : str[i + 1] \notin Whitespace}
    IN  IF keep = {} THEN <<>>
        ELSE LET first == CHOOSE i \in keep : \A k \in keep : i <= k
             IN  substr(str, first, Len(str) - first)

\* the static helper trim
trim(str) ==
    LET keep == {i \in 0..(Len(str) - 1) : str[i + 1] \notin Whitespace}
    IN  IF keep = {} THEN <<>>
        ELSE LET first == CHOOSE i \in keep : \A k \in keep : i <= k
                 last == CHOOSE i \in keep : \A k \in keep : k <= i
             IN  substr(str, first, last - first + 1)

\* tag::tag(name, args)
tag(name, args) == [name |-> name, args |-> args]

\* the quote handling of one character of the scan in tag::parse
scan_quote(args_str, i, st) ==
    LET c == args_str[i + 1]
    IN  IF (c = "\"" \/ c = "'") /\ (i = 0 \/ args_str[i] # "\\")
        THEN IF ~st.in_string THEN [st EXCEPT !.in_string = TRUE, !.quote_char = c]
             ELSE IF c = st.quote_char
                  THEN [st EXCEPT !.in_string = FALSE, !.quote_char = "\\0"]
                  ELSE st
        ELSE st

\* a scan that takes every quote character for a delimiter, escaped or not
scan_quote_no_escape(args_str, i, st) ==
    LET c == args_str[i + 1]
    IN  IF c = "\"" \/ c = "'"
        THEN IF ~st.in_string THEN [st EXCEPT !.in_string = TRUE, !.quote_char = c]
             ELSE IF c = st.quote_char
                  THEN [st EXCEPT !.in_string = FALSE, !.quote_char = "\\0"]
                  ELSE st
        ELSE st

RECURSIVE parse_loop_split_all(_, _, _)
\* a loop that splits on every comma, quoted or not
parse_loop_split_all(args_str, i, st) ==
    IF i >= Len(args_str) THEN st
    ELSE IF args_str[i + 1] = ","
         THEN parse_loop_split_all(args_str, i + 1,
                  [st EXCEPT !.args = Append(@, trim(substr(args_str, st.start, i - st.start))),
                             !.start = i + 1])
         ELSE parse_loop_split_all(args_str, i + 1, st)

RECURSIVE parse_loop(_, _, _)
\* the for loop of tag::parse from position i on; st holds start, in_string,
\* quote_char and the arguments pushed so far
parse_loop(args_str, i, st) ==
    IF i >= Len(args_str) THEN st
    ELSE LET q == scan_quote(args_str, i, st)
         IN  IF args_str[i + 1] = "," /\ ~q.in_string
             THEN parse_loop(args_str, i + 1,
                      [q EXCEPT !.args = Append(@, trim(substr(args_str, q.start, i - q.start))),
                                !.start = i + 1])
             ELSE parse_loop(args_str, i + 1, q)

\* a last argument that is stored even when nothing follows the last comma
parse_last_always(args_str, st) ==
    Append(st.args, trim(substr(args_str, st.start, npos)))

\* the last argument of tag::parse
parse_last(args_str, st) ==
    IF st.start < Len(args_str)
    THEN Append(st.args, trim(substr(args_str, st.start, npos)))
    ELSE st.args

\* a parse that takes the argument text up to the end of the input
parse_keeps_last_char(str) ==
    LET paren_pos == find(str, "(")
    IN  IF paren_pos = npos THEN tag(trim(str), <<>>)
        ELSE LET args_str == substr(str, paren_pos + 1, npos)
                 st == parse_loop(args_str, 0,
                           [start |-> 0, in_string |-> FALSE, quote_char |-> "\\0", args |-> <<>>])
             IN  tag(trim(substr(str, 0, paren_pos)), parse_last(args_str, st))

\* tag::parse
parse(str) ==
    LET paren_pos == find(str, "(")
    IN  IF paren_pos = npos THEN tag(trim(str), <<>>)
        ELSE LET args_str == substr(str, paren_pos + 1, size_t(Len(str) - paren_pos - 2))
                 st == parse_loop(args_str, 0,
                           [start |-> 0, in_string |-> FALSE, quote_char |-> "\\0", args |-> <<>>])
             IN  tag(trim(substr(str, 0, paren_pos)), parse_last(args_str, st))

RECURSIVE combine(_, _)
\* the loop of tag::get_args_combined from index i on
combine(args, i) ==
    IF i >= Len(args) THEN <<>>
    ELSE args[i + 1] \o (IF i < Len(args) - 1 THEN <<",", " ">> ELSE <<>>) \o combine(args, i + 1)

get_args_combined(t) == combine(t.args, 0)

get_full(t) == t.name \o <<"(">> \o get_args_combined(t) \o <<")">>

\* the longest text handed to tag::parse, apart from the annotations below
MaxInputLen == 5

\* the most characters of a tag constructed for get_full: the lengths of its
\* arguments plus the number of its arguments
MaxArgChars == 5

\* the longest name of a tag constructed for get_full
MaxNameLen == 2

\* all texts of length n over the characters cs
StringsOfLen(cs, n) == [1..n -> cs]

ParseChars == {"a", " ", ",", "\"", "'", "\\", "(", ")"}

\* `validate(0, 100)`
ValidateAnnotation ==
    <<"v", "a", "l", "i", "d", "a", "t", "e", "(", "0", ",", " ", "1", "0",
      "0", ")">>

\* `config(key, value)`
ConfigAnnotation ==
    <<"c", "o", "n", "f", "i", "g", "(", "k", "e", "y", ",", " ", "v", "a",
      "l", "u", "e", ")">>

\* `xccmeta::config(option1, option2, option3)`
OptionsAnnotation ==
    <<"x", "c", "c", "m", "e", "t", "a", ":", ":", "c", "o", "n", "f", "i",
      "g", "(", "o", "p", "t", "i", "o", "n", "1", ",", " ", "o", "p", "t",
      "i", "o", "n", "2", ",", " ", "o", "p", "t", "i", "o", "n", "3", ")">>

\* `n("a\\",b)`: the quoted text ends in a backslash that is itself escaped
EscapedBackslashAnnotation ==
    <<"n", "(", "\"", "a", "\\", "\\", "\"", ",", "b", ")">>

ParseInputs ==
    UNION {StringsOfLen(ParseChars, n) : n \in 0..MaxInputLen}
        \cup {ValidateAnnotation, ConfigAnnotation, OptionsAnnotation,
              EscapedBackslashAnnotation}

InitParse ==
    /\ to_parse \in ParseInputs
    /\ tag_ = <<>> /\ result = <<>> /\ ctx = <<>> /\ twin = <<>> /\ gen = <<>>
    /\ pc = "parse"
    /\ nodes = <<>> /\ config_ = DefaultConfig /\ types_ = <<>> /\ ret = FALSE
    /\ a = Null /\ b = Null /\ merged = Null

Parse ==
    /\ pc = "parse"
    /\ result' = parse(to_parse)
    /\ pc' = "parsed"
    /\ UNCHANGED <<gen, twin, ctx, tag_, to_parse, nodes, config_, types_, ret, a, b, merged>>

NextParse == Parse

SpecParse == InitParse /\ [][NextParse]_vars

NameChars == {"a", " "}

ArgChars == {"a", " ", ",", "\"", "'", "\\"}

RECURSIVE ArgLists(_)
\* the argument lists whose lengths plus number of elements come to w at most
ArgLists(w) ==
    {<<>>} \cup UNION {{<<e>> \o r : e \in StringsOfLen(ArgChars, n), r \in ArgLists(w - 1 - n)} :
                          n \in 0..(w - 1)}

InitRoundTrip ==
    /\ \E n \in 0..MaxNameLen : \E name \in StringsOfLen(NameChars, n) :
          \E args \in ArgLists(MaxArgChars) : tag_ = tag(name, args)
    /\ to_parse = <<>> /\ result = <<>> /\ ctx = <<>> /\ twin = <<>> /\ gen = <<>>
    /\ pc = "tag"
    /\ nodes = <<>> /\ config_ = DefaultConfig /\ types_ = <<>> /\ ret = FALSE
    /\ a = Null /\ b = Null /\ merged = Null

GetFull ==
    /\ pc = "tag"
    /\ to_parse' = get_full(tag_)
    /\ pc' = "parse"
    /\ UNCHANGED <<gen, twin, ctx, tag_, result, nodes, config_, types_, ret, a, b, merged>>

NextRoundTrip == GetFull \/ Parse

SpecRoundTrip == InitRoundTrip /\ [][NextRoundTrip]_vars

-----------------------------------------------------------------------------
(* Two filter objects whose configurations differ in child_node_inclusion   *)
(* and parent_node_inclusion at most, given the same calls on the same      *)
(* nodes.  The first is types_ / config_ / ret, the second is twin.         *)

\* filter::config::node_inclusion
node_inclusion == {"exclude", "include", "include_recursively"}

TwinConfigs ==
    [allowed_kinds : {<<>>},
     grab_tag_names : {<<>>, <<"internal">>},
     avoid_tag_names : {<<>>, <<"internal">>},
     child_node_inclusion : {"exclude"},
     parent_node_inclusion : {"exclude"}]

InitTwin ==
    /\ nodes = [n \in PoolIds |->
                    [new_node("class_decl") EXCEPT !.usr = MutUsrs[n], !.name = "T"]]
    /\ config_ \in TwinConfigs
    /\ \E c, p \in node_inclusion :
          twin = [types_ |-> <<>>, ret |-> FALSE,
                  config_ |-> [config_ EXCEPT !.child_node_inclusion = c,
                                              !.parent_node_inclusion = p]]
    /\ types_ = <<>>
    /\ ret = FALSE
    /\ tag_ = <<>> /\ to_parse = <<>> /\ result = <<>> /\ ctx = <<>> /\ gen = <<>>
    /\ a = Null /\ b = Null /\ merged = Null
    /\ pc = "mut"

\* add(type) on both filters
TwinAdd(type) ==
    /\ pc = "mut"
    /\ LET r == add(nodes, config_, types_, type)
           r2 == add(nodes, twin.config_, twin.types_, type)
       IN  /\ types_' = r.types /\ ret' = r.ret
           /\ twin' = [twin EXCEPT !.types_ = r2.types, !.ret = r2.ret]
    /\ UNCHANGED <<gen, ctx, tag_, to_parse, result, nodes, config_, a, b, merged, pc>>

\* remove(type) on both filters
TwinRemove(type) ==
    /\ pc = "mut"
    /\ LET r == remove(nodes, types_, type)
           r2 == remove(nodes, twin.types_, type)
       IN  /\ types_' = r.types /\ ret' = r.ret
           /\ twin' = [twin EXCEPT !.types_ = r2.types, !.ret = r2.ret]
    /\ UNCHANGED <<gen, ctx, tag_, to_parse, result, nodes, config_, a, b, merged, pc>>

\* clean() on both filters
TwinClean ==
    /\ pc = "mut"
    /\ types_' = clean(nodes, config_, types_)
    /\ twin' = [twin EXCEPT !.types_ = clean(nodes, twin.config_, twin.types_)]
    /\ UNCHANGED <<gen, ctx, tag_, to_parse, result, nodes, config_, ret, a, b, merged, pc>>

\* clear() on both filters
TwinClear ==
    /\ pc = "mut"
    /\ types_' = clear(types_)
    /\ twin' = [twin EXCEPT !.types_ = clear(twin.types_)]
    /\ UNCHANGED <<gen, ctx, tag_, to_parse, result, nodes, config_, ret, a, b, merged, pc>>

\* contains(type) on both filters
TwinContains(type) ==
    /\ pc = "mut"
    /\ ret' = contains(nodes, types_, type)
    /\ twin' = [twin EXCEPT !.ret = contains(nodes, twin.types_, type)]
    /\ UNCHANGED <<gen, ctx, tag_, to_parse, result, nodes, config_, types_, a, b, merged, pc>>

\* is_valid_type(type) on both filters
TwinIsValidType(type) ==
    /\ pc = "mut"
    /\ ret' = is_valid_type(nodes, config_, type)
    /\ twin' = [twin EXCEPT !.ret = is_valid_type(nodes, twin.config_, type)]
    /\ UNCHANGED <<gen, ctx, tag_, to_parse, result, nodes, config_, types_, a, b, merged, pc>>

\* matches_config(type) on both filters
TwinMatchesConfig(type) ==
    /\ pc = "mut"
    /\ ret' = matches_config(nodes, config_, type)
    /\ twin' = [twin EXCEPT !.ret = matches_config(nodes, twin.config_, type)]
    /\ UNCHANGED <<gen, ctx, tag_, to_parse, result, nodes, config_, types_, a, b, merged, pc>>

NextTwin ==
    \/ \E type \in PoolIds \cup {Null} : TwinAdd(type)
    \/ \E type \in PoolIds \cup {Null} : TwinRemove(type)
    \/ TwinClean
    \/ TwinClear
    \/ \E type \in PoolIds \cup {Null} : TwinContains(type)
    \/ \E type \in PoolIds \cup {Null} : TwinIsValidType(type)
    \/ \E type \in PoolIds \cup {Null} : TwinMatchesConfig(type)
    \/ \E n \in PoolIds : AddTag(n)

SpecTwin == InitTwin /\ [][NextTwin]_vars

-----------------------------------------------------------------------------
(* The tree operations of node, called in any order on a pool of nodes made *)
(* by node::create.                                                         *)

\* the most entries all children_ vectors hold together
MaxEdges == 3

\* a remove_child that resets the parent of the child even when it is not found
remove_child_always_resets(h, p, child) ==
    LET hits == {i \in DOMAIN h[p].children : h[p].children[i] = child}
    IN  IF hits # {}
        THEN LET it == CHOOSE i \in hits : \A k \in hits : i <= k
             IN  [h EXCEPT ![child].parent = Null,
                           ![p].children = SubSeq(@, 1, it - 1) \o SubSeq(@, it + 1, Len(@))]
        ELSE IF child # Null THEN [h EXCEPT ![child].parent = Null] ELSE h

\* node::remove_child
remove_child(h, p, child) ==
    LET hits == {i \in DOMAIN h[p].children : h[p].children[i] = child}
    IN  IF hits # {}
        THEN LET it == CHOOSE i \in hits : \A k \in hits : i <= k
             IN  [h EXCEPT ![child].parent = Null,
                           ![p].children = SubSeq(@, 1, it - 1) \o SubSeq(@, it + 1, Len(@))]
        ELSE h

RECURSIVE SumLen(_, _)
\* the number of entries of the children_ vectors of the nodes 1 .. n
SumLen(h, n) == IF n = 0 THEN 0 ELSE Len(h[n].children) + SumLen(h, n - 1)

InitTree ==
    /\ nodes = [n \in PoolIds |-> new_node("class_decl")]
    /\ pc = "tree"
    /\ tag_ = <<>> /\ to_parse = <<>> /\ result = <<>> /\ ctx = <<>> /\ twin = <<>> /\ gen = <<>>
    /\ config_ = DefaultConfig /\ types_ = <<>> /\ ret = FALSE
    /\ a = Null /\ b = Null /\ merged = Null

AddChild(p, child) ==
    /\ pc = "tree"
    /\ SumLen(nodes, Len(nodes)) < MaxEdges
    /\ nodes' = add_child(nodes, p, child)
    /\ UNCHANGED <<gen, twin, ctx, tag_, to_parse, result, config_, types_, ret, a, b, merged, pc>>

RemoveChild(p, child) ==
    /\ pc = "tree"
    /\ nodes' = remove_child(nodes, p, child)
    /\ UNCHANGED <<gen, twin, ctx, tag_, to_parse, result, config_, types_, ret, a, b, merged, pc>>

NextTree ==
    \/ \E p \in PoolIds, child \in PoolIds \cup {Null} : AddChild(p, child)
    \/ \E p \in PoolIds, child \in PoolIds \cup {Null} : RemoveChild(p, child)

SpecTree == InitTree /\ [][NextTree]_vars

-----------------------------------------------------------------------------
(* node::find_descendants on the nodes of the input trees; the predicate is *)
(* given by the set of nodes it holds for.                                  *)

RECURSIVE find_descendants_impl(_, _, _, _)
RECURSIVE find_descendants_loop(_, _, _, _, _)

\* the for loop of find_descendants_impl of node n from child index i on
find_descendants_loop(h, n, pred, res, i) ==
    IF i > Len(h[n].children) THEN res
    ELSE LET child == h[n].children[i]
             r1 == IF child \in pred THEN Append(res, child) ELSE res
         IN  find_descendants_loop(h, n, pred, find_descendants_impl(h, child, pred, r1), i + 1)

\* a search that does not go below a node the predicate holds for
find_descendants_stop_at_match(h, n, pred, res) ==
    LET step(r, i) ==
            LET child == h[n].children[i]
            IN  IF child \in pred THEN Append(r, child)
                ELSE find_descendants_impl(h, child, pred, r)
        run[i \in 0..Len(h[n].children)] ==
            IF i = 0 THEN res ELSE step(run[i - 1], i)
    IN  run[Len(h[n].children)]

find_descendants_impl(h, n, pred, res) == find_descendants_loop(h, n, pred, res, 1)

find_descendants(h, n, pred) == find_descendants_impl(h, n, pred, <<>>)

FindIds == 1..(RootB + MaxDecls)

InitFind ==
    /\ \E p \in ParentMaps :
          nodes = InputHeap(p, [n \in DeclIds |-> ""],
                            [n \in DeclIds |-> [kind |-> "namespace_decl", name |-> "ns", tags |-> <<>>]],
                            "")
    /\ pc = "find"
    /\ tag_ = <<>> /\ to_parse = <<>> /\ result = <<>> /\ ctx = <<>> /\ twin = <<>> /\ gen = <<>>
    /\ config_ = DefaultConfig /\ types_ = <<>> /\ ret = FALSE
    /\ a = Null /\ b = Null /\ merged = Null

\* result = a->find_descendants(pred) for a node a and a predicate pred
Find(n, pred) ==
    /\ pc = "find"
    /\ a' = n
    /\ result' = find_descendants(nodes, n, pred)
    /\ pc' = "found"
    /\ UNCHANGED <<gen, twin, ctx, tag_, to_parse, nodes, config_, types_, ret, b, merged>>

NextFind == \E n \in FindIds, pred \in SUBSET FindIds : Find(n, pred)

SpecFind == InitFind /\ [][NextFind]_vars

-----------------------------------------------------------------------------
(* The tag-based child queries of node, on the nodes of the input trees.    *)

\* a has_tags that takes an empty list of names for a match
has_tags_empty_matches(h, n, names) ==
    names = <<>> \/ \E i \in DOMAIN names : has_tag(h, n, names[i])

\* node::has_tags
has_tags(h, n, names) == \E i \in DOMAIN names : has_tag(h, n, names[i])

\* node::get_children_by_tags
get_children_by_tags(h, n, tag_names) ==
    SelectSeq(h[n].children,
              LAMBDA child : \E i \in DOMAIN tag_names : has_tag(h, child, tag_names[i]))

\* node::get_children_without_tags
get_children_without_tags(h, n, tag_names) ==
    SelectSeq(h[n].children, LAMBDA child : ~has_tags(h, child, tag_names))

\* the first element of a sequence of node_ptr, nullptr when there is none
front_or_null(s) == IF s = <<>> THEN Null ELSE s[1]

\* node::find_child_with_tags
find_child_with_tags(h, n, tag_names) ==
    front_or_null(SelectSeq(h[n].children, LAMBDA child : has_tags(h, child, tag_names)))

\* node::find_child_without_tags
find_child_without_tags(h, n, tag_names) ==
    front_or_null(SelectSeq(h[n].children, LAMBDA child : ~has_tags(h, child, tag_names)))

QueryNames == {<<>>, <<"interface">>, <<"other", "interface">>}

InitQuery ==
    /\ \E p \in ParentMaps, pr \in [DeclIds -> DeclProtos] :
          nodes = InputHeap(p, [n \in DeclIds |-> ""], pr, "")
    /\ pc = "query"
    /\ tag_ = <<>> /\ to_parse = <<>> /\ result = <<>> /\ ctx = <<>> /\ twin = <<>> /\ gen = <<>>
    /\ config_ = DefaultConfig /\ types_ = <<>> /\ ret = FALSE
    /\ a = Null /\ b = Null /\ merged = Null

\* the four queries with a list of names on node n; result keeps the list
\* and what each of them returned
TagQuery(n, tag_names) ==
    /\ pc = "query"
    /\ a' = n
    /\ result' = [tag_names |-> tag_names,
                  by_tags |-> get_children_by_tags(nodes, n, tag_names),
                  without_tags |-> get_children_without_tags(nodes, n, tag_names),
                  find_with |-> find_child_with_tags(nodes, n, tag_names),
                  find_without |-> find_child_without_tags(nodes, n, tag_names)]
    /\ pc' = "queried"
    /\ UNCHANGED <<gen, twin, ctx, tag_, to_parse, nodes, config_, types_, ret, b, merged>>

NextQuery == \E n \in FindIds, tag_names \in QueryNames : TagQuery(n, tag_names)

SpecQuery == InitQuery /\ [][NextQuery]_vars

-----------------------------------------------------------------------------
(* parser::parse building a tree through the visitor, twice, and the merge  *)
(* of the two trees.  clang_visitChildren calls visit_cursor for a cursor,  *)
(* which recurses into the children of the cursor and returns; ctx holds    *)
(* the current_parent of every visit_cursor call that has not returned.     *)

\* the most nodes the two parse calls create together
MaxBuild == 5

\* the usr populate_node_from_cursor gives a declaration
BuildUsrs == {"", "c:@N@ns"}

\* a visit that attaches the current parent where the new node belongs
visit_cursor_attaches_parent(h, current_parent, usr) ==
    LET id == Len(h) + 1
        h1 == [create(h, "namespace_decl") EXCEPT ![id].usr = usr, ![id].name = "ns"]
    IN  [heap |-> add_child(h1, current_parent, current_parent), id |-> id]

\* visit_cursor up to "Add to parent": [heap, id] with the new node in it
visit_cursor(h, current_parent, usr) ==
    LET id == Len(h) + 1
        h1 == [create(h, "namespace_decl") EXCEPT ![id].usr = usr, ![id].name = "ns"]
    IN  [heap |-> add_child(h1, current_parent, id), id |-> id]

InitBuild ==
    /\ nodes = <<>>
    /\ pc = "idle"
    /\ tag_ = <<>> /\ to_parse = <<>> /\ result = <<>> /\ ctx = <<>> /\ twin = <<>> /\ gen = <<>>
    /\ config_ = DefaultConfig /\ types_ = <<>> /\ ret = FALSE
    /\ a = Null /\ b = Null /\ merged = Null

\* parser::parse up to the call of clang_visitChildren
ParseBegin ==
    /\ pc = "idle"
    /\ Len(nodes) < MaxBuild
    /\ nodes' = [create(nodes, "translation_unit") EXCEPT ![Len(nodes) + 1].name = "input.cpp"]
    /\ ctx' = <<Len(nodes) + 1>>
    /\ pc' = "visiting"
    /\ UNCHANGED <<gen, twin, tag_, to_parse, result, config_, types_, ret, a, b, merged>>

\* visit_cursor is called for a cursor and goes into its children
VisitEnter(usr) ==
    /\ pc = "visiting"
    /\ Len(nodes) < MaxBuild
    /\ LET r == visit_cursor(nodes, ctx[Len(ctx)], usr)
       IN  nodes' = r.heap /\ ctx' = Append(ctx, r.id)
    /\ UNCHANGED <<gen, twin, tag_, to_parse, result, config_, types_, ret, a, b, merged, pc>>

\* visit_cursor puts old_parent back and returns
VisitLeave ==
    /\ pc = "visiting"
    /\ Len(ctx) > 1
    /\ ctx' = SubSeq(ctx, 1, Len(ctx) - 1)
    /\ UNCHANGED <<gen, twin, tag_, to_parse, result, nodes, config_, types_, ret, a, b, merged, pc>>

\* parser::parse returns root; the first tree is kept as a, the second as b
ParseEnd ==
    /\ pc = "visiting"
    /\ Len(ctx) = 1
    /\ IF a = Null
       THEN a' = ctx[1] /\ b' = b /\ pc' = "idle"
       ELSE a' = a /\ b' = ctx[1] /\ pc' = "start"
    /\ ctx' = <<>>
    /\ UNCHANGED <<gen, twin, tag_, to_parse, result, nodes, config_, types_, ret, merged>>

NextBuild ==
    \/ ParseBegin
    \/ \E usr \in BuildUsrs : VisitEnter(usr)
    \/ VisitLeave
    \/ ParseEnd
    \/ Merge

SpecBuild == InitBuild /\ [][NextBuild]_vars

RECURSIVE parent_walk(_, _, _, _)
\* the while loop of node::get_parent_tags; a loop that is still running after
\* as many rounds as there are nodes is on a cycle and never ends
parent_walk(h, parent, res, rounds) ==
    IF parent = Null THEN [ends |-> TRUE, tags |-> res]
    ELSE IF rounds = 0 THEN [ends |-> FALSE, tags |-> res]
    ELSE parent_walk(h, h[parent].parent, res \o h[parent].tags, rounds - 1)

\* node::get_parent_tags
get_parent_tags(h, n) == parent_walk(h, h[n].parent, <<>>, Len(h))

RECURSIVE descent_ends(_, _, _)
\* the recursion over get_children() that find_descendants_impl, collect_usrs
\* and clone_node share returns; a recursion deeper than the number of nodes
\* is on a cycle and never returns
descent_ends(h, n, depth) ==
    /\ depth > 0
    /\ \A i \in DOMAIN h[n].children : descent_ends(h, h[n].children[i], depth - 1)

-----------------------------------------------------------------------------
(* generator: gen.output_stream is the std::ofstream - is_open, the fail    *)
(* state after close() and the texts written to the file so far - and       *)
(* gen.warnings the messages of compile_warnings.  A std::string is the     *)
(* sequence of the pieces it was put together from.                         *)

\* the most lines out and separator are called for while the stream is open
MaxLines == 2

\* the most messages warn is called with
MaxWarnings == 2

\* an out that writes without asking whether the stream is open
out_unguarded(g, data) ==
    [g EXCEPT !.output_stream.file = Append(@, data)]

\* generator::out
out(g, data) ==
    IF g.output_stream.is_open
    THEN [g EXCEPT !.output_stream.file = Append(@, data)]
    ELSE g

\* generator::separator
separator(g) ==
    IF g.output_stream.is_open
    THEN [g EXCEPT !.output_stream.file = Append(@, <<"// ====">>)]
    ELSE g

\* generator::named_separator
named_separator(g, name) == separator(out(separator(g), <<"// === ">> \o name))

\* generator::warn
warn(g, message) == [g EXCEPT !.warnings = Append(@, message)]

\* compile_warnings::build
build(warnings) ==
    IF warnings = <<>> THEN <<>>
    ELSE <<"#ifdef _MSC_VER">> \o warnings \o <<"#else">> \o warnings \o <<"#endif">>

\* generator::done: [gen, ret]; close_fails tells whether close() sets failbit
done(g, close_fails) ==
    LET g1 == IF g.warnings # <<>>
              THEN out(named_separator(g, <<"Warnings">>), build(g.warnings))
              ELSE g
    IN  IF g1.output_stream.is_open
        THEN [gen |-> [g1 EXCEPT !.output_stream.is_open = FALSE,
                                 !.output_stream.fail = close_fails],
              ret |-> ~close_fails]
        ELSE [gen |-> g1, ret |-> TRUE]

\* generator::generator, the file opened or not
InitGen ==
    /\ \E opened \in BOOLEAN :
          gen = [output_stream |-> [is_open |-> opened, fail |-> ~opened, file |-> <<>>],
                 warnings |-> <<>>]
    /\ pc = "constructed"
    /\ tag_ = <<>> /\ to_parse = <<>> /\ result = <<>> /\ ctx = <<>> /\ twin = <<>>
    /\ nodes = <<>> /\ config_ = DefaultConfig /\ types_ = <<>> /\ ret = FALSE
    /\ a = Null /\ b = Null /\ merged = Null

\* the object is alive: its destructor has not run
Alive == pc \in {"constructed", "finalised"}

Out(data) ==
    /\ Alive
    /\ ~gen.output_stream.is_open \/ Len(gen.output_stream.file) < MaxLines
    /\ gen' = out(gen, data)
    /\ result' = "out"
    /\ UNCHANGED <<twin, ctx, tag_, to_parse, nodes, config_, types_, ret, a, b, merged, pc>>

Separator ==
    /\ Alive
    /\ ~gen.output_stream.is_open \/ Len(gen.output_stream.file) < MaxLines
    /\ gen' = separator(gen)
    /\ result' = "separator"
    /\ UNCHANGED <<twin, ctx, tag_, to_parse, nodes, config_, types_, ret, a, b, merged, pc>>

Warn(message) ==
    /\ Alive
    /\ Len(gen.warnings) < MaxWarnings
    /\ gen' = warn(gen, message)
    /\ result' = "warn"
    /\ UNCHANGED <<twin, ctx, tag_, to_parse, nodes, config_, types_, ret, a, b, merged, pc>>

\* ret = done()
Done ==
    /\ Alive
    /\ \E close_fails \in BOOLEAN :
          LET r == done(gen, close_fails)
          IN  gen' = r.gen /\ ret' = r.ret
    /\ result' = "done"
    /\ pc' = "finalised"
    /\ UNCHANGED <<twin, ctx, tag_, to_parse, nodes, config_, types_, a, b, merged>>

\* generator::~generator
Destructor ==
    /\ Alive
    /\ \E close_fails \in BOOLEAN : gen' = done(gen, close_fails).gen
    /\ result' = "~generator"
    /\ pc' = "destroyed"
    /\ UNCHANGED <<twin, ctx, tag_, to_parse, nodes, config_, types_, ret, a, b, merged>>

NextGen ==
    \/ \E data \in {<<"int x;">>, <<"// === ", "Warnings">>} : Out(data)
    \/ Separator
    \/ \E message \in {"unused", "deprecated"} : Warn(message)
    \/ Done
    \/ Destructor

SpecGen == InitGen /\ [][NextGen]_vars

-----------------------------------------------------------------------------
(* Reading a tree out of the heap *)

RECURSIVE Subtree(_, _)
\* n and all its descendants
Subtree(h, n) ==
    IF n = Null THEN {}
    ELSE {n} \cup UNION {Subtree(h, h[n].children[i]) : i \in DOMAIN h[n].children}

\* the proper descendants of n
Descendants(h, n) == Subtree(h, n) \ {n}

\* the nodes below root that carry usr u
WithUsr(h, root, u) == {x \in Descendants(h, root) : h[x].usr = u}

RECURSIVE DeepEq(_, _, _)
\* x and y are roots of subtrees of the same shape with the same attributes and tags
DeepEq(h, x, y) ==
    /\ h[x].kind = h[y].kind /\ h[x].usr = h[y].usr
    /\ h[x].name = h[y].name /\ h[x].tags = h[y].tags
    /\ Len(h[x].children) = Len(h[y].children)
    /\ \A i \in DOMAIN h[x].children : DeepEq(h, h[x].children[i], h[y].children[i])

\* merge has run on two present, different trees
MergedBoth == pc = "done" /\ a # Null /\ b # Null /\ a # b

-----------------------------------------------------------------------------
(* Claims about parser::merge *)

\* C1: for non-absent A and B every non-empty Usr occurs on at most one node of
\* merge(A, B), counting the nodes at every depth of the merged tree.
C1_MergedUsrUnique ==
    MergedBoth =>
        \A u \in Usrs \ {""} : Cardinality(WithUsr(nodes, merged, u)) <= 1

\* C2: when either input is absent merge returns the other input itself; no node
\* is created and no node is changed.
C2_MergeAbsentReturnsOther ==
    [][(pc = "start" /\ pc' = "done" /\ (a = Null \/ b = Null)) =>
          /\ merged' = (IF a = Null THEN b ELSE a)
          /\ nodes' = nodes]_vars

C2_Witness ==
    /\ pc = "done" /\ a = Null /\ b = RootB /\ merged = RootB
    /\ nodes[RootB].children # <<>>

\* C3: when a direct child of A and a direct child of B carry the same non-empty
\* Usr, the single node with that Usr in merge(A, B) is a copy of A's node, with
\* A's attributes, A's tags and copies of A's children.
C3_AWinsSingleNode ==
    MergedBoth =>
        \A i \in DOMAIN nodes[a].children, j \in DOMAIN nodes[b].children :
            LET ca == nodes[a].children[i]
                cb == nodes[b].children[j]
                u == nodes[ca].usr
            IN  (u # "" /\ nodes[cb].usr = u) =>
                    /\ Cardinality(WithUsr(nodes, merged, u)) = 1
                    /\ \A x \in WithUsr(nodes, merged, u) : DeepEq(nodes, x, ca)

\* C4: merge(t, t) contains exactly one node per non-empty Usr present in t, and
\* twice as many nodes with empty Usr as t has.
C4_MergeSelf ==
    (pc = "done" /\ a # Null /\ b = a) =>
        /\ \A u \in Usrs \ {""} :
              WithUsr(nodes, a, u) # {} => Cardinality(WithUsr(nodes, merged, u)) = 1
        /\ Cardinality(WithUsr(nodes, merged, "")) = 2 * Cardinality(WithUsr(nodes, a, ""))

-----------------------------------------------------------------------------
(* Claims about the filter *)

\* some held node carries the usr of node x
HeldUsr(x) == \E i \in DOMAIN types_ : nodes[types_[i]].usr = nodes[x].usr

\* position of x in the sequence s of distinct elements
Pos(s, x) == CHOOSE i \in DOMAIN s : s[i] = x

\* s holds elements of t only, in the order they have in t
KeepsOrder(s, t) ==
    /\ Range(s) \subseteq Range(t)
    /\ \A i, j \in DOMAIN s : i < j => Pos(t, s[i]) < Pos(t, s[j])

\* C5: in every reachable filter state add(node) returns false and leaves the held
\* sequence as it is when node is absent, is no valid type or a node with the same
\* Usr is held; otherwise it appends node at the end and returns true.
C5_AddContract ==
    pc = "filter" =>
        \A type \in PoolIds \cup {Null} :
            LET r == add(nodes, config_, types_, type)
            IN  IF \/ type = Null
                   \/ ~is_valid_type(nodes, config_, type)
                   \/ HeldUsr(type)
                THEN r.types = types_ /\ r.ret = FALSE
                ELSE r.types = Append(types_, type) /\ r.ret = TRUE

C5_Witness ==
    /\ Len(types_) = 2 /\ ret = TRUE
    /\ \E x \in PoolIds : x \notin Range(types_) /\ HeldUsr(x)
                          /\ is_valid_type(nodes, config_, x)

\* C6: in every reachable filter state and for every node x, when add(x) returns
\* true, contains(x) right after it is true and size() has grown by exactly one;
\* a further add of x or of any node with x's Usr returns false and leaves size()
\* as it is.
C6_AddThenContains ==
    pc = "filter" =>
        \A x \in PoolIds :
            LET r == add(nodes, config_, types_, x)
            IN  r.ret =>
                  /\ contains(nodes, r.types, x)
                  /\ size(r.types) = size(types_) + 1
                  /\ \A y \in PoolIds :
                        nodes[y].usr = nodes[x].usr =>
                            LET r2 == add(nodes, config_, r.types, y)
                            IN  ~r2.ret /\ size(r2.types) = size(r.types)

C6_Witness ==
    /\ Len(types_) = 2 /\ ret = TRUE
    /\ \E y \in PoolIds : /\ y # types_[2]
                          /\ nodes[y].usr = nodes[types_[2]].usr
                          /\ is_valid_type(nodes, config_, y)

\* C7: no two held nodes carry the same non-empty Usr, and the held nodes stand in
\* the order of their successful add calls: a step either leaves the held nodes in
\* their order (dropping some) or puts one new node behind all the others.
C7_UniqueAndOrdered ==
    /\ [](\A i, j \in DOMAIN types_ :
             (i # j /\ nodes[types_[i]].usr # "") =>
                 nodes[types_[i]].usr # nodes[types_[j]].usr)
    /\ [][\/ KeepsOrder(types_', types_)
          \/ \E x \in PoolIds : x \notin Range(types_) /\ types_' = Append(types_, x)]_vars

C7_Witness ==
    /\ Len(types_) = 2 /\ types_[1] > types_[2]
    /\ \E x \in PoolIds : x \notin Range(types_) /\ HeldUsr(x) /\ nodes[x].usr # ""
                          /\ is_valid_type(nodes, config_, x)

\* C8: a node with empty Usr is never taken for a duplicate: a valid type node
\* with empty Usr that is not itself held is not reported by contains and is
\* accepted by add, whatever else is held.
C8_EmptyUsrNeverDuplicate ==
    \A x \in PoolIds :
        (pc = "filter" /\ nodes[x].usr = "" /\ x \notin Range(types_)
            /\ is_valid_type(nodes, config_, x)) =>
                /\ ~contains(nodes, types_, x)
                /\ add(nodes, config_, types_, x).ret

\* C9: matches_config(node) is true exactly when (1) allowed_kinds is empty or
\* holds the node's kind, (2) no tag of the node is named in avoid_tag_names and
\* (3) grab_tag_names is empty or names some tag of the node.
C9_MatchesConfig ==
    pc = "matched" =>
        ret = (/\ config_.allowed_kinds = <<>> \/ nodes[1].kind \in Range(config_.allowed_kinds)
               /\ \A i \in DOMAIN nodes[1].tags :
                     nodes[1].tags[i].name \notin Range(config_.avoid_tag_names)
               /\ \/ config_.grab_tag_names = <<>>
                  \/ \E i \in DOMAIN nodes[1].tags :
                        nodes[1].tags[i].name \in Range(config_.grab_tag_names))

\* a node with a grab tag and an avoid tag, of an allowed kind, is turned down
C9_Witness ==
    /\ pc = "matched" /\ ret = FALSE
    /\ nodes[1].kind = "class_decl" /\ config_.allowed_kinds = <<"class_decl">>
    /\ config_.grab_tag_names = <<"serialize">> /\ config_.avoid_tag_names = <<"internal">>
    /\ {nodes[1].tags[i].name : i \in DOMAIN nodes[1].tags} = {"serialize", "internal"}

\* C10: every held node is a type declaration (class, struct, union, enum, typedef
\* or type alias) and satisfies matches_config, so clean() removes nothing.
C10_HeldAreValidTypes ==
    pc = "filter" =>
        /\ \A i \in DOMAIN types_ :
              /\ nodes[types_[i]].kind \in {"class_decl", "struct_decl", "union_decl",
                                            "enum_decl", "typedef_decl", "type_alias_decl"}
              /\ matches_config(nodes, config_, types_[i])
        /\ clean(nodes, config_, types_) = types_

\* nodes are held while a function that passes the tag and kind lists is not
C10_Witness ==
    /\ pc = "filter" /\ Len(types_) = 2 /\ ret = FALSE
    /\ config_.grab_tag_names # <<>>
    /\ \E x \in PoolIds : /\ nodes[x].kind = "function_decl"
                          /\ matches_config(nodes, config_, x)

-----------------------------------------------------------------------------
\* t is s with its i-th element taken out
Without(s, i) == SubSeq(s, 1, i - 1) \o SubSeq(s, i + 1, Len(s))

\* C11: filter::remove(type) returns false and leaves types_ as it is when type
\* is null or no held node has type's usr; otherwise it takes out exactly the
\* one held node whose usr equals type's usr (whether or not it is the same
\* object), keeps the others in order, returns true, and contains(type) is
\* false right afterwards.
C11_RemoveContract ==
    pc = "filter" =>
        \A type \in PoolIds \cup {Null} :
            LET r == remove(nodes, types_, type)
            IN  IF type = Null \/ ~HeldUsr(type)
                THEN r.ret = FALSE /\ r.types = types_
                ELSE /\ r.ret = TRUE
                     /\ \E i \in DOMAIN types_ :
                            /\ nodes[types_[i]].usr = nodes[type].usr
                            /\ r.types = Without(types_, i)
                     /\ ~contains(nodes, r.types, type)

\* two nodes are held and a third object that is not held carries the usr of
\* the first of them, so removing through it takes the first and keeps the second
C11_Witness ==
    /\ pc = "filter" /\ Len(types_) = 2
    /\ \E x \in PoolIds :
           /\ x \notin Range(types_)
           /\ nodes[x].usr = nodes[types_[1]].usr
           /\ remove(nodes, types_, x) = [types |-> <<types_[2]>>, ret |-> TRUE]

\* C12: filter::clean() takes out exactly the held nodes for which
\* matches_config is false at the time of the call, keeps the others in their
\* order, does not look at is_type_decl again, and a second clean() changes
\* nothing.
C12_CleanContract ==
    pc = "mut" =>
        LET r == clean(nodes, config_, types_)
        IN  /\ KeepsOrder(r, types_)
            /\ Range(r) = {x \in Range(types_) : matches_config(nodes, config_, x)}
            /\ clean(nodes, config_, r) = r

\* three nodes are held; the first and the second got a denied tag after they
\* were added, and the third is no type declaration any more but still
\* matches the configuration, so clean() keeps it alone
C12_Witness ==
    /\ pc = "mut" /\ Len(types_) = 3
    /\ ~matches_config(nodes, config_, types_[1])
    /\ ~matches_config(nodes, config_, types_[2])
    /\ ~is_type_decl(nodes, types_[3])
    /\ clean(nodes, config_, types_) = <<types_[3]>>

-----------------------------------------------------------------------------
RECURSIVE quote_after(_, _)
\* the quote state of the scan after the first i characters of the text e
quote_after(e, i) ==
    IF i = 0 THEN [in_string |-> FALSE, quote_char |-> "\\0"]
    ELSE scan_quote(e, i - 1, quote_after(e, i - 1))

\* the positions of the commas of e that lie outside a quoted region
CommasOutside(e) ==
    {i \in 0..(Len(e) - 1) : e[i + 1] = "," /\ ~quote_after(e, i).in_string}

\* every comma of e outside a quoted region follows a backslash
NoUnescapedCommaOutside(e) ==
    \A i \in CommasOutside(e) : i > 0 /\ e[i] = "\\"

\* e has no comma outside a quoted region and closes every quote it opens
SelfContained(e) ==
    CommasOutside(e) = {} /\ ~quote_after(e, Len(e)).in_string

NoParens(n) == \A i \in DOMAIN n : n[i] \notin {"(", ")"}

\* the arguments of result are those of tag_, each trimmed
ArgsTrimmedEqual ==
    /\ Len(result.args) = Len(tag_.args)
    /\ \A i \in DOMAIN tag_.args : result.args[i] = trim(tag_.args[i])

Option(d) == <<"o", "p", "t", "i", "o", "n", d>>

EndsInEmptyParens ==
    /\ Len(to_parse) >= 2
    /\ SubSeq(to_parse, Len(to_parse) - 1, Len(to_parse)) = <<"(", ")">>

\* the name in front of the closing "()"
NameBefore == SubSeq(to_parse, 1, Len(to_parse) - 2)

\* C16 as stated: for every name n, tag::parse(n + "()") returns the name n
\* and no argument, and get_args_combined() on it is the empty text.
C16_EmptyParens_AsStated ==
    (pc = "parsed" /\ EndsInEmptyParens) =>
        /\ result.name = NameBefore
        /\ result.args = <<>>
        /\ get_args_combined(result) = <<>>

\* C16: for every name n that contains no '(', tag::parse(n + "()") returns the
\* name n trimmed of surrounding whitespace and no argument (not one empty
\* argument), and get_args_combined() on it is the empty text.
C16_EmptyParens ==
    (pc = "parsed" /\ EndsInEmptyParens /\ "(" \notin Range(NameBefore)) =>
        /\ result.name = trim(NameBefore)
        /\ result.args = <<>>
        /\ get_args_combined(result) = <<>>

C16_Witness ==
    /\ pc = "parsed"
    /\ to_parse = <<"a", ")", "a", "(", ")">>
    /\ result = tag(<<"a", ")", "a">>, <<>>)

-----------------------------------------------------------------------------
\* the places (parent, index) where node c stands in a children sequence
PlacesOf(c) ==
    {pl \in PoolIds \X (1..MaxEdges) :
        pl[2] \in DOMAIN nodes[pl[1]].children /\ nodes[pl[1]].children[pl[2]] = c}

\* C17: after any sequence of add_child and remove_child calls every node
\* stands in the children of at most one parent, and there at most once.
C17_SingleParent ==
    pc = "tree" => \A c \in PoolIds : Cardinality(PlacesOf(c)) <= 1

\* C18: add_child(child) on a node with a non-null child appends child as the
\* last of the node's children, the earlier ones unchanged, and sets child's
\* parent to the node; with a null child it changes nothing.
C18_AddChildContract ==
    pc = "tree" =>
        \A p \in PoolIds, child \in PoolIds \cup {Null} :
            LET h == add_child(nodes, p, child)
            IN  IF child = Null THEN h = nodes
                ELSE /\ h[p].children = Append(nodes[p].children, child)
                     /\ h[child].parent = p
                     /\ \A q \in PoolIds :
                           /\ q # p => h[q].children = nodes[q].children
                           /\ q # child => h[q].parent = nodes[q].parent

\* a node with two children, each pointing back at it
C18_Witness ==
    /\ pc = "tree"
    /\ \E p, c, d \in PoolIds :
          /\ c # d /\ c # p /\ d # p
          /\ nodes[p].children = <<c, d>>
          /\ nodes[c].parent = p /\ nodes[d].parent = p

\* the index of the first occurrence of x in s
FirstPos(s, x) == CHOOSE i \in DOMAIN s : s[i] = x /\ \A k \in 1..(i - 1) : s[k] # x

\* C19: remove_child(child) takes only the first occurrence of child, found by
\* pointer identity, out of the node's children and clears child's parent;
\* when child is not among the children nothing changes, child's parent
\* included.
C19_RemoveChildContract ==
    pc = "tree" =>
        \A p \in PoolIds, child \in PoolIds \cup {Null} :
            LET h == remove_child(nodes, p, child)
            IN  IF child \in Range(nodes[p].children)
                THEN /\ h[p].children =
                            Without(nodes[p].children, FirstPos(nodes[p].children, child))
                     /\ h[child].parent = Null
                     /\ \A q \in PoolIds :
                           /\ q # p => h[q].children = nodes[q].children
                           /\ q # child => h[q].parent = nodes[q].parent
                ELSE h = nodes

\* node c stands twice among the children of p with another node between, and
\* a node that is not a child of p has another node as its parent
C19_Witness ==
    /\ pc = "tree"
    /\ \E p, c, d \in PoolIds :
          /\ c # d
          /\ nodes[p].children = <<c, d, c>>
          /\ remove_child(nodes, p, c)[p].children = <<d, c>>
    /\ \E p, c \in PoolIds :
          /\ c \notin Range(nodes[p].children)
          /\ nodes[c].parent \notin {Null, p}

\* x comes before y in the pre-order of the tree: x is above y, or the two
\* stand below different children of one node, x below the earlier one
PreOrderBefore(h, x, y) ==
    \/ y \in Descendants(h, x)
    \/ \E z \in DOMAIN h : \E i, j \in DOMAIN h[z].children :
          /\ i < j
          /\ x \in Subtree(h, h[z].children[i])
          /\ y \in Subtree(h, h[z].children[j])

\* C20: find_descendants(pred) on a node returns exactly the proper descendants
\* of the node that satisfy pred, each once, in pre-order (a node before its
\* own descendants, siblings in insertion order); the nodes below a matching
\* node are searched too and the node itself is never in the result.
C20_FindDescendants ==
    pc = "find" =>
        \A n \in FindIds, pred \in SUBSET FindIds :
            LET r == find_descendants(nodes, n, pred)
            IN  /\ Range(r) = Descendants(nodes, n) \cap pred
                /\ n \notin Range(r)
                /\ \A i, j \in DOMAIN r : i < j => PreOrderBefore(nodes, r[i], r[j])

\* a search from the root of A with a predicate that holds for every node has
\* returned a child, then the child of that child, then the second child
C20_Witness ==
    /\ pc = "found" /\ a = RootA
    /\ Len(result) = 3
    /\ nodes[RootA].children = <<result[1], result[3]>>
    /\ nodes[result[1]].children = <<result[2]>>

-----------------------------------------------------------------------------
\* C21: with an empty list of names get_children_by_tags returns no node and
\* find_child_with_tags returns null, while get_children_without_tags returns
\* all direct children in order and find_child_without_tags the first child
\* (null when the node has no child), whatever tags the children carry.
C21_VacuousTagQueries ==
    (pc = "queried" /\ result.tag_names = <<>>) =>
        /\ result.by_tags = <<>>
        /\ result.find_with = Null
        /\ result.without_tags = nodes[a].children
        /\ result.find_without = front_or_null(nodes[a].children)

\* the queries ran with an empty list on a node with two children, the first
\* of them tagged
C21_Witness ==
    /\ pc = "queried" /\ result.tag_names = <<>>
    /\ Len(nodes[a].children) = 2
    /\ nodes[nodes[a].children[1]].tags # <<>>
    /\ result.find_without = nodes[a].children[1]
    /\ result.without_tags = nodes[a].children

-----------------------------------------------------------------------------
\* the usrs carried by root or a node below it
UsrsIn(h, root) == {h[x].usr : x \in Subtree(h, root)}

\* the direct children of b that merge copies: those without usr and those
\* whose usr is on no node of the tree a
KeptOfB(h, x, y) ==
    SelectSeq(h[y].children, LAMBDA c : h[c].usr = "" \/ h[c].usr \notin UsrsIn(h, x))

\* C22: for present A and B the children of the merged root are deep copies of
\* all direct children of A in A's order, followed by deep copies, in B's
\* order, of the direct children of B whose usr is empty or is on no node of A
\* (root and nested descendants included); the other children of B are left out.
C22_MergedChildren ==
    (pc = "done" /\ a # Null /\ b # Null) =>
        LET expected == nodes[a].children \o KeptOfB(nodes, a, b)
            got == nodes[merged].children
        IN  /\ Len(got) = Len(expected)
            /\ \A i \in DOMAIN expected :
                  got[i] # expected[i] /\ DeepEq(nodes, got[i], expected[i])

\* a direct child of B was left out because its usr is carried by a node two
\* levels below the root of A and by no direct child of A
C22_Witness ==
    /\ MergedBoth
    /\ \E cb \in Range(nodes[b].children) :
          /\ nodes[cb].usr # ""
          /\ \A ca \in Range(nodes[a].children) : nodes[ca].usr # nodes[cb].usr
          /\ \E ca \in Range(nodes[a].children) : \E g \in Range(nodes[ca].children) :
                nodes[g].usr = nodes[cb].usr
          /\ Len(nodes[merged].children) = Len(nodes[a].children)

\* C23: for present A and B the merged root is a newly created translation
\* unit, no node of the merged tree is a node of A or B, every child of the
\* merged root has the shape, order, attributes and tags of a direct child
\* of A or B, and every node that existed before the call is as it was.
C23_MergeSharesNothing ==
    (pc = "start" /\ a # Null /\ b # Null) =>
        LET r == merge(nodes, a, b)
        IN  /\ r.id \notin DOMAIN nodes
            /\ r.heap[r.id].kind = "translation_unit"
            /\ Subtree(r.heap, r.id) \cap DOMAIN nodes = {}
            /\ \A c \in Range(r.heap[r.id].children) :
                  \E o \in Range(nodes[a].children) \cup Range(nodes[b].children) :
                      DeepEq(r.heap, c, o)
            /\ SubSeq(r.heap, 1, Len(nodes)) = nodes

\* merge has copied a child of A that has a child of its own, and a child of B
C23_Witness ==
    /\ MergedBoth
    /\ \E ca \in Range(nodes[a].children) : nodes[ca].children # <<>>
    /\ Len(nodes[merged].children) > Len(nodes[a].children)
    /\ merged \notin Subtree(nodes, a) \cup Subtree(nodes, b)

\* the nodes of B that stand in the subtree of a direct child merge copies
KeptNodesOfB(h, x, y) == UNION {Subtree(h, c) : c \in Range(KeptOfB(h, x, y))}

\* C28: when a direct child of B is left out because its usr occurs in A, the
\* nodes below it are left out with it: for a usr that is nowhere in A the
\* merged tree holds as many nodes as the copied children of B hold, so a
\* node below a skipped child whose usr is on no other node is absent.
C28_SkippedSubtreeDiscarded ==
    (pc = "done" /\ a # Null /\ b # Null) =>
        \A u \in Usrs \ ({""} \cup UsrsIn(nodes, a)) :
            /\ Cardinality(WithUsr(nodes, merged, u))
                  = Cardinality({x \in KeptNodesOfB(nodes, a, b) : nodes[x].usr = u})
            /\ (\A x \in Descendants(nodes, b) : nodes[x].usr = u => x \notin KeptNodesOfB(nodes, a, b))
                  => WithUsr(nodes, merged, u) = {}

\* B has a node with a usr that is nowhere in A below a direct child whose usr
\* is in A, and the merged tree has no node with the usr of that node
C28_Witness ==
    /\ MergedBoth
    /\ \E cb \in Range(nodes[b].children) : \E d \in Descendants(nodes, cb) :
          /\ nodes[cb].usr # "" /\ nodes[cb].usr \in UsrsIn(nodes, a)
          /\ nodes[d].usr # "" /\ nodes[d].usr \notin UsrsIn(nodes, a)
          /\ WithUsr(nodes, merged, nodes[d].usr) = {}

-----------------------------------------------------------------------------
\* the places (parent, index) where node c stands in a children sequence of h
PlacesIn(h, c) ==
    {pl \in (DOMAIN h) \X (DOMAIN h) :
        pl[2] \in DOMAIN h[pl[1]].children /\ h[pl[1]].children[pl[2]] = c}

\* every node a step attaches was created by that step
AttachesFreshOnly ==
    \A n \in DOMAIN nodes' : \A i \in DOMAIN nodes'[n].children :
        (n \notin DOMAIN nodes \/ i > Len(nodes[n].children))
            => nodes'[n].children[i] \notin DOMAIN nodes

\* C27: the parse visitor, clone_node and merge hand add_child only nodes that
\* were just created and stand nowhere yet; so in every tree they make no node
\* is its own ancestor, and the upward walk of get_parent_tags and the downward
\* recursions of find_descendants, collect_usrs and clone_node come to an end.
C27_FreshAttachAcyclic ==
    /\ [][AttachesFreshOnly]_vars
    /\ [](\A n \in DOMAIN nodes :
             /\ Cardinality(PlacesIn(nodes, n)) <= 1
             /\ get_parent_tags(nodes, n).ends
             /\ descent_ends(nodes, n, Len(nodes)))

\* two trees with nested declarations were parsed and merged
C27_Witness ==
    /\ pc = "done" /\ merged # Null
    /\ \E c \in Range(nodes[merged].children) : nodes[c].children # <<>>
    /\ Len(nodes[b].children) > 0

\* C29: in every tree merge returns and every tree parse builds, each child c
\* of a node p has p as its parent - a copy has the copy above it as parent,
\* never a node of A or B - and the root has no parent.
C29_ParentConsistent ==
    /\ \A p \in DOMAIN nodes : \A c \in Range(nodes[p].children) : nodes[c].parent = p
    /\ \A root \in ({a, b, merged} \cup {ctx[i] : i \in DOMAIN ctx \cap {1}}) \ {Null} :
          nodes[root].parent = Null
    /\ pc = "done" =>
          \A x \in Descendants(nodes, merged) :
              /\ nodes[x].parent \in Subtree(nodes, merged)
              /\ nodes[x].parent \notin Subtree(nodes, a) \cup Subtree(nodes, b)

\* merge has returned a tree with a copied node two levels below the root
C29_Witness ==
    /\ pc = "done" /\ merged # Null
    /\ \E c \in Range(nodes[merged].children) : \E g \in Range(nodes[c].children) :
          nodes[g].parent = c /\ nodes[c].parent = merged

-----------------------------------------------------------------------------
\* the text tag::parse scans for arguments, for an input with a '('
ArgsText(str) ==
    LET paren_pos == find(str, "(")
    IN  substr(str, paren_pos + 1, size_t(Len(str) - paren_pos - 2))

RECURSIVE BackslashesBefore(_, _)
\* the number of backslashes that stand in a row right before position i
BackslashesBefore(str, i) ==
    IF i = 0 \/ str[i] # "\\" THEN 0 ELSE 1 + BackslashesBefore(str, i - 1)

\* the character at position i follows a backslash that is not escaped itself
AfterUnescapedBackslash(str, i) == BackslashesBefore(str, i) % 2 = 1

RECURSIVE InQuoteBefore(_, _)
\* the quote character of the region position i lies in, "\\0" outside of
\* one: a quote character opens a region, or closes the region it opened,
\* unless it follows an unescaped backslash
InQuoteBefore(str, i) ==
    IF i = 0 THEN "\\0"
    ELSE LET q == InQuoteBefore(str, i - 1)
             c == str[i]
         IN  IF c \in {"\"", "'"} /\ ~AfterUnescapedBackslash(str, i - 1)
             THEN IF q = "\\0" THEN c ELSE IF q = c THEN "\\0" ELSE q
             ELSE q

\* the positions of the commas of str that lie outside every quoted region
SeparatorsOf(str) ==
    {i \in 0..(Len(str) - 1) : str[i + 1] = "," /\ InQuoteBefore(str, i) = "\\0"}

RECURSIVE SlicesFrom(_, _, _)
\* the trimmed slices of str from position start on, cut at the positions seps;
\* a last slice of no characters is not stored
SlicesFrom(str, start, seps) ==
    LET next == {i \in seps : i >= start}
    IN  IF next = {}
        THEN IF start < Len(str) THEN <<trim(substr(str, start, npos))>> ELSE <<>>
        ELSE LET i == CHOOSE x \in next : \A y \in next : x <= y
             IN  <<trim(substr(str, start, i - start))>> \o SlicesFrom(str, i + 1, seps)

\* C24: in tag::parse a comma separates arguments unless it lies in a region
\* opened by " or '; a quote character opens or closes a region unless it
\* follows an unescaped backslash - after an escaped backslash, as in "a\\",
\* it still closes the region and a comma behind it splits - and a quote that
\* is never closed keeps the rest of the text in one argument.
C24_QuoteSplitting ==
    (pc = "parsed" /\ find(to_parse, "(") # npos) =>
        result.args = SlicesFrom(ArgsText(to_parse), 0, SeparatorsOf(ArgsText(to_parse)))

\* the last position of c in str, for a str that holds c
LastPos(str, c) ==
    CHOOSE i \in 0..(Len(str) - 1) :
        str[i + 1] = c /\ \A k \in (i + 1)..(Len(str) - 1) : str[k + 1] # c

\* the text strictly between the first '(' and the final ')' of str
BetweenParens(str) ==
    substr(str, find(str, "(") + 1, LastPos(str, ")") - find(str, "(") - 1)

\* the arguments the scan of tag::parse makes of the text t
ArgsOfText(t) ==
    parse_last(t, parse_loop(t, 0, [start |-> 0, in_string |-> FALSE,
                                     quote_char |-> "\\0", args |-> <<>>]))

\* C25: for an input with a '(' tag::parse takes the name from the trimmed text
\* before the first '(' and the arguments from exactly the text between the
\* first '(' and the final ')': neither the final ')' nor what follows it gets
\* into an argument, and nothing before it is dropped; an input without '('
\* gives the whole trimmed text as name and no argument.
C25_TextBetweenParens ==
    pc = "parsed" =>
        IF find(to_parse, "(") = npos
        THEN result = tag(trim(to_parse), <<>>)
        ELSE /\ result.name = trim(substr(to_parse, 0, find(to_parse, "(")))
             /\ (\E i \in DOMAIN to_parse : i > find(to_parse, "(") + 1 /\ to_parse[i] = ")")
                    => result.args = ArgsOfText(BetweenParens(to_parse))

-----------------------------------------------------------------------------
-----------------------------------------------------------------------------
\* the positions of the file where a text made by compile_warnings::build stands
WarningTexts(file) == {i \in DOMAIN file : file[i][1] = "#ifdef _MSC_VER"}

\* C30: whatever out, separator and warn calls come before done() and whatever
\* done() calls follow it, the destructor's included, the warnings are written
\* to the output at most once, out and separator after the first done() write
\* nothing, and every done() after the first returns true and leaves the
\* output as it is.
C30_DoneOnce ==
    /\ [](pc \in {"constructed", "finalised", "destroyed"}
             => Cardinality(WarningTexts(gen.output_stream.file)) <= 1)
    /\ [][pc = "finalised" =>
             /\ gen'.output_stream.file = gen.output_stream.file
             /\ result' = "done" => ret' = TRUE]_vars

\* done() was called on an open stream with a warning pending and close()
\* failed, so that call returned false; a later done() has returned true, and
\* the file holds the line written before, the warnings section and no more
C30_Witness ==
    /\ pc = "finalised" /\ result = "done" /\ ret = TRUE
    /\ gen.output_stream.fail /\ gen.warnings # <<>>
    /\ Len(gen.output_stream.file) = 5
    /\ gen.output_stream.file[1] = <<"int x;">>

====
